---- MODULE Spec2Model ----
(***************************************************************************)
(* Model of the agent session orchestration of pharmacyresearchai:         *)
(*   multi-agent.py        the three-stage pipeline and search_web         *)
(*   ai_agent_existing.py  the single-agent flow that reuses an agent      *)
(*   ai_agent_create.py    the single-agent flow that provisions an agent  *)
(* A text is a sequence of characters; the literals of the code are        *)
(* spelled as one element each.  Every remote call either returns or       *)
(* raises, chosen by the environment.                                      *)
(***************************************************************************)
EXTENDS Integers, Sequences, FiniteSets, TLC

VARIABLES config, flow, pc, stage, user_query, agent_ids, thread, web_results,
          response, printed, calls, pending, error, outcome, service_agents,
          http

vars == <<config, flow, pc, stage, user_query, agent_ids, thread, web_results,
          response, printed, calls, pending, error, outcome, service_agents,
          http>>

\* ---------------------------------------------------------------- bounds

\* the longest result list the search API answers with
MaxItems == 2

\* ---------------------------------------------------------------- texts

Flows == {"pipeline", "existing", "create"}

Stages == 1..3

\* the texts a user types at the prompt; input() may return the empty text
Queries == {<<>>, <<"a">>, <<"a", "b">>}

\* the texts an agent answers with
Responses == {<<"a">>, <<"b">>}

\* the values of an item's excerpt field when the field is there
Snippets == {<<>>, <<"a">>, <<"b">>}

NoText == [some |-> FALSE, val |-> <<>>]

Some(t) == [some |-> TRUE, val |-> t]

NL == <<"\n">>

NoResults == <<"No results found.">>

RECURSIVE Join(_, _)
\* sep.join(parts)
Join(sep, parts) ==
    IF parts = <<>> THEN <<>>
    ELSE IF Len(parts) = 1 THEN parts[1]
    ELSE parts[1] \o sep \o Join(sep, Tail(parts))

\* ---------------------------------------------------------------- agents

AGENT1_ID == "xxxxx"

AGENT2_ID == "xxxxxx"

AGENT3_ID == "xxxxxx"

ExistingAssistantId == "xxxxxxx"

CreatedAgentId == "TechSupportAdvisor"

SingleQuery == <<"Can Azure App Services be integrated with Vnet?">>

\* the document and the web agent taken for one another
StageAgentId_Swapped(k) == IF k = 1 THEN AGENT2_ID ELSE IF k = 2 THEN AGENT1_ID ELSE AGENT3_ID

StageAgentId(k) == IF k = 1 THEN AGENT1_ID ELSE IF k = 2 THEN AGENT2_ID ELSE AGENT3_ID

\* ---------------------------------------------------------------- search_web

\* one result item: has says whether the item has the key "snippet"
Items == {[has |-> FALSE, snippet |-> <<>>]} \cup {[has |-> TRUE, snippet |-> s] : s \in Snippets}

ItemLists == UNION {[1..n -> Items] : n \in 0..MaxItems}

NoHttp == [kind |-> "none", status |-> 0, json |-> FALSE, organic |-> FALSE, items |-> <<>>]

\* what session.get and response.json() can meet: the connection fails, or a
\* response of some status arrives whose body parses as JSON or does not,
\* and a parsed body has the key "organic_results" or not
HttpOutcomes ==
    {[kind |-> "transport_error", status |-> 0, json |-> FALSE, organic |-> FALSE, items |-> <<>>]}
    \cup {[kind |-> "response", status |-> s, json |-> FALSE, organic |-> FALSE, items |-> <<>>] :
             s \in {200, 401}}
    \cup {[kind |-> "response", status |-> s, json |-> TRUE, organic |-> FALSE, items |-> <<>>] :
             s \in {200, 401}}
    \cup {[kind |-> "response", status |-> s, json |-> TRUE, organic |-> TRUE, items |-> its] :
             s \in {200, 401}, its \in ItemLists}

\* item.get("snippet")
ItemGet(item) == IF item.has THEN Some(item.snippet) ELSE NoText

\* if snippet is not None: an empty excerpt is kept
Truthy_NotNone(snippet) == snippet.some

\* if snippet: (None and the empty text are false)
Truthy(snippet) == snippet.some /\ snippet.val # <<>>

RECURSIVE CollectSnippets(_, _)
\* the loop over result["organic_results"], appending to snippets
CollectSnippets(items, snippets) ==
    IF items = <<>> THEN snippets
    ELSE CollectSnippets(Tail(items),
                         IF Truthy(ItemGet(Head(items)))
                         THEN Append(snippets, ItemGet(Head(items)).val)
                         ELSE snippets)

\* the return statement giving back the first excerpt alone
Digest_FirstOnly(snippets) == IF snippets # <<>> THEN snippets[1] ELSE NoResults

\* the return statement without the sentinel
Digest_NoSentinel(snippets) == Join(NL, snippets)

\* the return statement of search_web
Digest(snippets) == IF snippets # <<>> THEN Join(NL, snippets) ELSE NoResults

\* search_web(query) facing the outcome h: raised, or the text returned
search_web(query, h) ==
    IF h.kind = "transport_error" \/ ~h.json
    THEN [raised |-> TRUE, val |-> <<>>]
    ELSE [raised |-> FALSE,
          val |-> Digest(IF h.organic THEN CollectSnippets(h.items, <<>>) ELSE <<>>)]

\* ---------------------------------------------------------------- the service calls made so far

Call(op, tid, agent, msg, ok) == [op |-> op, tid |-> tid, agent |-> agent, msg |-> msg, ok |-> ok]

CallsOf(op) == {i \in 1..Len(calls) : calls[i].op = op}

\* thread ids are handed out in creation order
NewThreadId == Cardinality({i \in CallsOf("create_thread") : calls[i].ok}) + 1

\* ---------------------------------------------------------------- stage inputs and labels

DocLabel == <<"Document Agent info: ">>

WebLabel == <<"Web Agent info: ">>

\* f"Web search results for '{user_query}':\n{web_results}"
WebMessage(query, results) ==
    <<"Web search results for '">> \o query \o <<"':">> \o NL \o results

\* combined_info with the two sections in the other order
CombinedInfo_WebFirst(response_doc, response_web) ==
    WebLabel \o response_web \o NL \o NL \o DocLabel \o response_doc

\* combined_info
CombinedInfo(response_doc, response_web) ==
    DocLabel \o response_doc \o NL \o NL \o WebLabel \o response_web

\* the message each stage posts
StageMessage(k) ==
    IF k = 1 THEN user_query
    ELSE IF k = 2 THEN WebMessage(user_query, web_results.val)
    ELSE CombinedInfo(response[1].val, response[2].val)

StageHeading(k) ==
    IF k = 1 THEN <<"\n[Document Search Agent Response]">>
    ELSE IF k = 2 THEN <<"\n[Web Search Agent Response]">>
    ELSE <<"\n[Summary Agent Response]">>

\* the heading printed without the response
PrintResponse_HeadingOnly(out, k, r) == out \o <<StageHeading(k)>>

\* the two prints after a stage's response: the heading, then the response
PrintResponse(out, k, r) == out \o <<StageHeading(k), r>>

\* ---------------------------------------------------------------- configuration

\* os.environ.get gives None for a variable that is not set
EnvValues == {"None", "set"}

\* the module-level settings of multi-agent.py, read once at import; the
\* single-agent files read none
Configs(f) ==
    IF f = "pipeline"
    THEN [SERP_API_KEY : EnvValues, PROJECT_CONN_STR : EnvValues]
    ELSE {[SERP_API_KEY |-> "None", PROJECT_CONN_STR |-> "None"]}

\* what the search can meet without an API key: the request is refused
\* before it is sent or the API answers 401, with no result list
KeylessOutcomes ==
    {h \in HttpOutcomes : h.kind = "transport_error" \/ (h.status = 401 /\ ~h.organic)}

\* ---------------------------------------------------------------- initial state

Init ==
    /\ flow \in Flows
    /\ config \in Configs(flow)
    /\ pc = "start"
    /\ stage = 0
    /\ user_query = <<>>
    /\ agent_ids = <<>>
    /\ thread = [k \in Stages |-> 0]
    /\ web_results = NoText
    /\ response = [k \in Stages |-> NoText]
    /\ printed = <<>>
    /\ calls = <<>>
    /\ pending = "none"
    /\ error = "none"
    /\ outcome = "running"
    /\ service_agents = {AGENT1_ID, AGENT2_ID, AGENT3_ID, ExistingAssistantId}
    /\ http = NoHttp

\* an exception leaves main: the run ends with it
Raise(e) ==
    /\ pc' = "done"
    /\ outcome' = "raised"
    /\ error' = e

\* main returns
Return ==
    /\ pc' = "done"
    /\ outcome' = "returned"
    /\ error' = "none"

\* ---------------------------------------------------------------- multi-agent.py: main

\* user_query = input(...)
Input ==
    /\ flow = "pipeline" /\ pc = "start"
    /\ \E q \in Queries : user_query' = q
    /\ pc' = "init_client"
    /\ UNCHANGED <<config, flow, stage, agent_ids, thread, web_results, response, printed,
                   calls, pending, error, outcome, service_agents, http>>

\* AIProjectClient.from_connection_string in its try/except: a failure (the
\* connection string is None, or it is set and refused) is printed and main
\* returns
InitProjectClient ==
    /\ flow = "pipeline" /\ pc = "init_client"
    /\ \/ /\ config.PROJECT_CONN_STR # "None"
          /\ printed' = Append(printed, <<"Project client initialized.">>)
          /\ pc' = "get_agent"
          /\ stage' = 1
          /\ UNCHANGED <<outcome, error>>
       \/ /\ printed' = Append(printed, <<"Error initializing project client">>)
          /\ Return
          /\ UNCHANGED stage
    /\ UNCHANGED <<config, flow, user_query, agent_ids, thread, web_results, response,
                   calls, pending, service_agents, http>>

\* get_agent raised and main goes on to the stages without the agent
AgentNotResolved_Ignored ==
    /\ pc' = "create_thread"
    /\ stage' = 1
    /\ agent_ids' = <<AGENT1_ID, AGENT2_ID, AGENT3_ID>>
    /\ UNCHANGED <<outcome, error>>

\* get_agent raised: nothing handles it in main
AgentNotResolved ==
    /\ Raise("get_agent")
    /\ UNCHANGED <<agent_ids, stage>>

\* the three get_agent calls, in order; stage counts them
GetAgent ==
    /\ flow = "pipeline" /\ pc = "get_agent"
    /\ \E ok \in BOOLEAN :
         /\ calls' = Append(calls, Call("get_agent", 0, StageAgentId(stage), <<>>, ok))
         /\ IF ok
            THEN /\ agent_ids' = Append(agent_ids, StageAgentId(stage))
                 /\ IF stage < 3
                    THEN /\ stage' = stage + 1 /\ pc' = "get_agent"
                    ELSE /\ stage' = 1 /\ pc' = "create_thread"
                 /\ UNCHANGED <<outcome, error>>
            ELSE AgentNotResolved
    /\ UNCHANGED <<config, flow, user_query, thread, web_results, response, printed,
                   pending, service_agents, http>>

\* web_results = await search_web(user_query), at the head of the web stage
SearchWeb ==
    /\ flow = "pipeline" /\ pc = "search"
    /\ \E h \in (IF config.SERP_API_KEY = "None" THEN KeylessOutcomes ELSE HttpOutcomes) :
         /\ http' = h
         /\ calls' = Append(calls, Call("http_get", 0, "", user_query, h.kind = "response"))
         /\ IF search_web(user_query, h).raised
            THEN /\ Raise("search_web")
                 /\ UNCHANGED web_results
            ELSE /\ web_results' = Some(search_web(user_query, h).val)
                 /\ pc' = "create_thread"
                 /\ UNCHANGED <<outcome, error>>
    /\ UNCHANGED <<config, flow, stage, user_query, agent_ids, thread, response, printed,
                   pending, service_agents>>

\* threadK = await client.agents.create_thread()
CreateThread ==
    /\ flow = "pipeline" /\ pc = "create_thread"
    /\ \E ok \in BOOLEAN :
         /\ calls' = Append(calls, Call("create_thread", IF ok THEN NewThreadId ELSE 0, "", <<>>, ok))
         /\ IF ok
            THEN /\ thread' = [thread EXCEPT ![stage] = NewThreadId]
                 /\ pc' = "add_chat_message"
                 /\ UNCHANGED <<outcome, error>>
            ELSE /\ Raise("create_thread")
                 /\ UNCHANGED thread
    /\ UNCHANGED <<config, flow, stage, user_query, agent_ids, web_results, response, printed,
                   pending, service_agents, http>>

\* every stage posting to and asking on the first thread
StageThread_First(k) == thread[1]

\* threadK.id, the thread_id argument of stage k's add_chat_message and
\* get_response
StageThread(k) == thread[k]

\* await agentK.add_chat_message(thread_id=threadK.id, message=...)
AddChatMessage ==
    /\ flow = "pipeline" /\ pc = "add_chat_message"
    /\ \E ok \in BOOLEAN :
         /\ calls' = Append(calls, Call("add_chat_message", StageThread(stage), agent_ids[stage],
                                        StageMessage(stage), ok))
         /\ IF ok
            THEN /\ pc' = "get_response"
                 /\ UNCHANGED <<outcome, error>>
            ELSE Raise("add_chat_message")
    /\ UNCHANGED <<config, flow, stage, user_query, agent_ids, thread, web_results, response,
                   printed, pending, service_agents, http>>

\* responseK = await agentK.get_response(thread_id=threadK.id), then the two
\* prints; after the last stage the cleanup loop starts
GetResponse ==
    /\ flow = "pipeline" /\ pc = "get_response"
    /\ \/ \E r \in Responses :
            /\ calls' = Append(calls, Call("get_response", StageThread(stage), agent_ids[stage], r, TRUE))
            /\ response' = [response EXCEPT ![stage] = Some(r)]
            /\ printed' = PrintResponse(printed, stage, r)
            /\ stage' = IF stage < 3 THEN stage + 1 ELSE 1
            /\ pc' = IF stage = 1 THEN "search"
                     ELSE IF stage = 2 THEN "create_thread"
                     ELSE "delete_thread"
            /\ UNCHANGED <<outcome, error>>
       \/ /\ calls' = Append(calls, Call("get_response", StageThread(stage), agent_ids[stage], <<>>, FALSE))
          /\ Raise("get_response")
          /\ UNCHANGED <<response, printed, stage>>
    /\ UNCHANGED <<config, flow, user_query, agent_ids, thread, web_results, pending,
                   service_agents, http>>

\* the loop without its try/except: a failed delete_thread leaves main
DeleteThread_StopOnFailure ==
    /\ flow = "pipeline" /\ pc = "delete_thread"
    /\ \E ok \in BOOLEAN :
         /\ calls' = Append(calls, Call("delete_thread", thread[stage], "", <<>>, ok))
         /\ IF ok /\ stage < 3
            THEN /\ stage' = stage + 1
                 /\ UNCHANGED <<pc, outcome, error>>
            ELSE /\ (IF ok THEN Return ELSE Raise("delete_thread"))
                 /\ UNCHANGED stage
    /\ UNCHANGED <<config, flow, user_query, agent_ids, thread, web_results, response,
                   printed, pending, service_agents, http>>

\* one turn of the loop over [thread1, thread2, thread3]: delete_thread in
\* its try/except, a failure is printed and the loop goes on
DeleteThread ==
    /\ flow = "pipeline" /\ pc = "delete_thread"
    /\ \E ok \in BOOLEAN :
         /\ calls' = Append(calls, Call("delete_thread", thread[stage], "", <<>>, ok))
         /\ printed' = IF ok THEN printed ELSE Append(printed, <<"Error deleting thread">>)
    /\ IF stage < 3
       THEN /\ stage' = stage + 1
            /\ UNCHANGED <<pc, outcome, error>>
       ELSE /\ Return
            /\ UNCHANGED stage
    /\ UNCHANGED <<config, flow, user_query, agent_ids, thread, web_results, response,
                   pending, service_agents, http>>

\* the call that is in flight when main waits at a search or an ask
InFlightCall ==
    IF pc = "search" THEN Call("http_get", 0, "", user_query, FALSE)
    ELSE IF pc = "add_chat_message"
    THEN Call("add_chat_message", StageThread(stage), agent_ids[stage], StageMessage(stage), FALSE)
    ELSE Call("get_response", StageThread(stage), agent_ids[stage], <<>>, FALSE)

\* the run is cancelled while search_web, add_chat_message or get_response
\* is awaited: CancelledError is raised at that await and nothing in main
\* handles it (the only handlers are except Exception)
Cancel ==
    /\ flow = "pipeline" /\ pc \in {"search", "add_chat_message", "get_response"}
    /\ calls' = Append(calls, InFlightCall)
    /\ Raise("cancelled")
    /\ UNCHANGED <<config, flow, stage, user_query, agent_ids, thread, web_results,
                   response, printed, pending, service_agents, http>>

\* asyncio.run(main()): the status the process exits with
ExitStatus == IF outcome = "raised" THEN 1 ELSE 0

\* ---------------------------------------------------------------- the single-agent flows

\* thread = await client.agents.create_thread(), before the try block
SingleCreateThread(f) ==
    /\ flow = f /\ pc = "create_thread"
    /\ \E ok \in BOOLEAN :
         /\ calls' = Append(calls, Call("create_thread", IF ok THEN NewThreadId ELSE 0, "", <<>>, ok))
         /\ IF ok
            THEN /\ thread' = [thread EXCEPT ![1] = NewThreadId]
                 /\ pc' = "add_chat_message"
                 /\ UNCHANGED <<outcome, error>>
            ELSE /\ Raise("create_thread")
                 /\ UNCHANGED thread
    /\ UNCHANGED <<config, flow, stage, user_query, agent_ids, web_results, response, printed,
                   pending, service_agents, http>>

\* in the try block: user_query is set, posted and printed; an exception
\* is held while the finally block runs
SingleAddChatMessage(f) ==
    /\ flow = f /\ pc = "add_chat_message"
    /\ user_query' = SingleQuery
    /\ \E ok \in BOOLEAN :
         /\ calls' = Append(calls, Call("add_chat_message", thread[1], agent_ids[1], SingleQuery, ok))
         /\ IF ok
            THEN /\ printed' = Append(printed, <<"# User: ">> \o SingleQuery)
                 /\ pc' = "get_response"
                 /\ UNCHANGED pending
            ELSE /\ pending' = "add_chat_message"
                 /\ pc' = "delete_thread"
                 /\ UNCHANGED printed
    /\ UNCHANGED <<config, flow, stage, agent_ids, thread, web_results, response, error,
                   outcome, service_agents, http>>

\* in the try block: the response is awaited and printed
SingleGetResponse(f, heading) ==
    /\ flow = f /\ pc = "get_response"
    /\ \/ \E r \in Responses :
            /\ calls' = Append(calls, Call("get_response", thread[1], agent_ids[1], r, TRUE))
            /\ response' = [response EXCEPT ![1] = Some(r)]
            /\ printed' = Append(printed, heading \o r)
            /\ UNCHANGED pending
       \/ /\ calls' = Append(calls, Call("get_response", thread[1], agent_ids[1], <<>>, FALSE))
          /\ pending' = "get_response"
          /\ UNCHANGED <<response, printed>>
    /\ pc' = "delete_thread"
    /\ UNCHANGED <<config, flow, stage, user_query, agent_ids, thread, web_results, error,
                   outcome, service_agents, http>>

\* the run is cancelled while add_chat_message or get_response is awaited in
\* the try block: CancelledError is held while the finally block runs
SingleCancel(f) ==
    /\ flow = f /\ pc \in {"add_chat_message", "get_response"}
    /\ user_query' = SingleQuery
    /\ calls' = Append(calls, Call(pc, thread[1], agent_ids[1],
                                   IF pc = "add_chat_message" THEN SingleQuery ELSE <<>>, FALSE))
    /\ pending' = "cancelled"
    /\ pc' = "delete_thread"
    /\ UNCHANGED <<config, flow, stage, agent_ids, thread, web_results, response, printed,
                   error, outcome, service_agents, http>>

\* leaving a finally block that ran to its end: the held exception, if any,
\* goes on
LeaveFinally == IF pending = "none" THEN Return ELSE Raise(pending)

\* ---------------------------------------------------------------- ai_agent_existing.py: main

\* agent_definition = await client.agents.get_agent(assistant_id=...)
ExGetAgent ==
    /\ flow = "existing" /\ pc = "start"
    /\ \E ok \in BOOLEAN :
         /\ calls' = Append(calls, Call("get_agent", 0, ExistingAssistantId, <<>>, ok))
         /\ IF ok
            THEN /\ agent_ids' = <<ExistingAssistantId>>
                 /\ stage' = 1
                 /\ pc' = "create_thread"
                 /\ UNCHANGED <<outcome, error>>
            ELSE /\ Raise("get_agent")
                 /\ UNCHANGED <<agent_ids, stage>>
    /\ UNCHANGED <<config, flow, user_query, thread, web_results, response, printed,
                   pending, service_agents, http>>

ExCreateThread == SingleCreateThread("existing")

ExAddChatMessage == SingleAddChatMessage("existing")

ExGetResponse == SingleGetResponse("existing", <<"# Agent: ">>)

ExCancel == SingleCancel("existing")

\* the finally block: delete_thread, outside any handler
ExDeleteThread ==
    /\ flow = "existing" /\ pc = "delete_thread"
    /\ \E ok \in BOOLEAN :
         /\ calls' = Append(calls, Call("delete_thread", thread[1], "", <<>>, ok))
         /\ IF ok THEN LeaveFinally ELSE Raise("delete_thread")
    /\ UNCHANGED <<config, flow, stage, user_query, agent_ids, thread, web_results, response,
                   printed, pending, service_agents, http>>

\* ---------------------------------------------------------------- ai_agent_create.py: main

\* agent_definition = await client.agents.create_agent(...)
CrCreateAgent ==
    /\ flow = "create" /\ pc = "start"
    /\ \E ok \in BOOLEAN :
         /\ calls' = Append(calls, Call("create_agent", 0, CreatedAgentId, <<>>, ok))
         /\ IF ok
            THEN /\ agent_ids' = <<CreatedAgentId>>
                 /\ service_agents' = service_agents \cup {CreatedAgentId}
                 /\ stage' = 1
                 /\ pc' = "create_thread"
                 /\ UNCHANGED <<outcome, error>>
            ELSE /\ Raise("create_agent")
                 /\ UNCHANGED <<agent_ids, service_agents, stage>>
    /\ UNCHANGED <<config, flow, user_query, thread, web_results, response, printed,
                   pending, http>>

CrCreateThread == SingleCreateThread("create")

CrAddChatMessage == SingleAddChatMessage("create")

CrGetResponse == SingleGetResponse("create", <<"# TechSupportAdvisor: ">>)

CrCancel == SingleCancel("create")

\* the finally block, first statement: delete_thread
CrDeleteThread ==
    /\ flow = "create" /\ pc = "delete_thread"
    /\ \E ok \in BOOLEAN :
         /\ calls' = Append(calls, Call("delete_thread", thread[1], "", <<>>, ok))
         /\ IF ok
            THEN /\ pc' = "delete_agent"
                 /\ UNCHANGED <<outcome, error>>
            ELSE Raise("delete_thread")
    /\ UNCHANGED <<config, flow, stage, user_query, agent_ids, thread, web_results, response,
                   printed, pending, service_agents, http>>

\* the finally block deleting the agent of the reuse flow
OwnAgentId_Reused == ExistingAssistantId

\* agent.id, the agent built from the definition create_agent returned
OwnAgentId == agent_ids[1]

\* the finally block, second statement: delete_agent(agent.id)
CrDeleteAgent ==
    /\ flow = "create" /\ pc = "delete_agent"
    /\ \E ok \in BOOLEAN :
         /\ calls' = Append(calls, Call("delete_agent", 0, OwnAgentId, <<>>, ok))
         /\ IF ok
            THEN /\ service_agents' = service_agents \ {OwnAgentId}
                 /\ LeaveFinally
            ELSE /\ Raise("delete_agent")
                 /\ UNCHANGED service_agents
    /\ UNCHANGED <<config, flow, stage, user_query, agent_ids, thread, web_results, response,
                   printed, pending, http>>

Next ==
    \/ Input
    \/ InitProjectClient
    \/ GetAgent
    \/ SearchWeb
    \/ CreateThread
    \/ AddChatMessage
    \/ GetResponse
    \/ DeleteThread
    \/ Cancel
    \/ ExGetAgent
    \/ ExCreateThread
    \/ ExAddChatMessage
    \/ ExGetResponse
    \/ ExCancel
    \/ ExDeleteThread
    \/ CrCreateAgent
    \/ CrCreateThread
    \/ CrAddChatMessage
    \/ CrGetResponse
    \/ CrCancel
    \/ CrDeleteThread
    \/ CrDeleteAgent

Spec == Init /\ [][Next]_vars

\* ---------------------------------------------------------------- what the claims speak of

RunEnded == pc = "done"

\* the positions in calls of the calls of one kind, in call order
RECURSIVE IndicesOf(_, _)
IndicesOf(op, n) ==
    IF n = 0 THEN <<>>
    ELSE IF calls[n].op = op THEN Append(IndicesOf(op, n - 1), n)
    ELSE IndicesOf(op, n - 1)

Creates == IndicesOf("create_thread", Len(calls))

Posts == IndicesOf("add_chat_message", Len(calls))

Asks == IndicesOf("get_response", Len(calls))

Deletes == IndicesOf("delete_thread", Len(calls))

ThreadsOpened == {i \in CallsOf("create_thread") : calls[i].ok}

LastCall == calls[Len(calls)]

\* the item has the excerpt field
HasExcerpt(item) == item.has

\* the item has the excerpt field and the field is not the empty text
HasNonEmptyExcerpt(item) == item.has /\ item.snippet # <<>>

\* the ask of stage k (its add_chat_message or its get_response) raised
AskRaisedAt(k) ==
    /\ flow = "pipeline" /\ calls # <<>>
    /\ LastCall.op \in {"add_chat_message", "get_response"}
    /\ ~LastCall.ok
    /\ thread[k] # 0 /\ LastCall.tid = thread[k]

\* ---------------------------------------------------------------- C1

\* C1 (cleanup completeness): when a pipeline run has ended, whatever
\* succeeded or raised on the way, delete_thread has been attempted as many
\* times as threads were created in the run.
C1_CleanupCompleteness ==
    (flow = "pipeline" /\ RunEnded) => Len(Deletes) = Cardinality(ThreadsOpened)

\* ---------------------------------------------------------------- C2

\* C2 (cleanup never fails the result): in every flow an exception of
\* delete_thread is never the exception the run ends with; so it neither
\* fails a run that got all its Responses nor takes the place of an earlier
\* exception of the ask.
C2_CleanupNeverFailsRun ==
    /\ error # "delete_thread"
    /\ (RunEnded /\ pending # "none") => error = pending

\* ---------------------------------------------------------------- C3

\* the output of the stages before k, in stage order, after the line that
\* reports the client
ReportedBefore(k) ==
    <<<<"Project client initialized.">>>>
    \o (IF k > 1 THEN <<StageHeading(1), response[1].val>> ELSE <<>>)
    \o (IF k > 2 THEN <<StageHeading(2), response[2].val>> ELSE <<>>)

\* C3 (partial results on stage failure): when the ask of stage k raises,
\* the Responses of the stages before k are recorded and are exactly what
\* has been reported, each the text its get_response returned, and no stage
\* after k has a thread, a posted message or a Response.
C3_PartialResults ==
    \A k \in Stages :
        AskRaisedAt(k) =>
            /\ \A j \in 1..(k - 1) :
                   /\ response[j].some
                   /\ calls[Asks[j]].ok /\ calls[Asks[j]].msg = response[j].val
            /\ printed = ReportedBefore(k)
            /\ \A j \in k..3 : ~response[j].some
            /\ \A j \in (k + 1)..3 : thread[j] = 0
            /\ Len(Creates) = k /\ Len(Posts) = k /\ Len(Asks) <= k

C3_Witness ==
    /\ AskRaisedAt(3) /\ LastCall.op = "get_response"
    /\ RunEnded /\ outcome = "raised"
    /\ response[1].val # response[2].val

\* ---------------------------------------------------------------- C4

\* C4 (reuse versus provision): the flows that resolve agents with get_agent
\* never call delete_agent, and the provisioning flow calls it only on the
\* agent its own create_agent call created.
C4_ReuseVersusProvision ==
    \A i \in CallsOf("delete_agent") :
        /\ flow = "create"
        /\ \E j \in 1..(i - 1) :
               /\ calls[j].op = "create_agent" /\ calls[j].ok
               /\ calls[j].agent = calls[i].agent
        /\ calls[i].agent \notin {AGENT1_ID, AGENT2_ID, AGENT3_ID, ExistingAssistantId}

C4_Witness ==
    /\ flow = "create" /\ RunEnded
    /\ pending = "get_response"
    /\ \E i \in CallsOf("delete_agent") : calls[i].ok /\ calls[i].agent = CreatedAgentId
    /\ CreatedAgentId \notin service_agents

\* ---------------------------------------------------------------- C5

\* the search of this run failed: no connection, or a body that does not parse
SearchFailed == http.kind = "transport_error" \/ (http.kind = "response" /\ ~http.json)

\* text has sub as a contiguous part
Contains(text, sub) ==
    \E i \in 1..(Len(text) - Len(sub) + 1) : SubSeq(text, i, i + Len(sub) - 1) = sub

\* no call to an agent or to the thread service raised
NoServiceCallRaised == \A i \in 1..Len(calls) : calls[i].op # "http_get" => calls[i].ok

\* C5 (a failed search does not abort the pipeline): a run whose search
\* failed does not end with the search's exception; when no service call
\* raises either, it ends with the web stage asked with a message that
\* carries the sentinel and with the summary stage's Response.
C5_FailedSearchDegrades ==
    (flow = "pipeline" /\ SearchFailed) =>
        /\ error # "search_web"
        /\ (RunEnded /\ NoServiceCallRaised) =>
               /\ Len(Posts) >= 2 /\ Contains(calls[Posts[2]].msg, NoResults)
               /\ response[3].some

\* ---------------------------------------------------------------- C6

Is2xx(status) == status >= 200 /\ status < 300

\* C6 (search failures surface): after a search that met a transport
\* failure or a response that is not 2xx, search_web has raised and has
\* returned no text, neither a digest nor the sentinel; and one call made
\* one request.
C6_SearchFailureSurfaces ==
    (http.kind = "transport_error" \/ (http.kind = "response" /\ ~Is2xx(http.status))) =>
        /\ ~web_results.some
        /\ error = "search_web"
        /\ Len(IndicesOf("http_get", Len(calls))) = 1

\* ---------------------------------------------------------------- C7

\* the search of this run got a body that parsed
SearchParsed == http.kind = "response" /\ http.json

\* C7 (never the empty text): for a non-empty query and a parsed response,
\* whatever its result list, search_web returns a text, and the text is a
\* non-empty digest or the sentinel, never the empty text.
C7_NeverEmpty ==
    (user_query # <<>> /\ SearchParsed) =>
        /\ web_results.some
        /\ web_results.val # <<>>
        /\ (\A i \in 1..Len(http.items) : ~HasNonEmptyExcerpt(http.items[i]))
               => web_results.val = NoResults

C7_Witness ==
    /\ user_query # <<>> /\ SearchParsed /\ http.organic
    /\ Len(http.items) = MaxItems
    /\ \A i \in 1..Len(http.items) : http.items[i].has /\ http.items[i].snippet = <<>>
    /\ web_results = Some(NoResults)

\* ---------------------------------------------------------------- C8

\* the excerpts of the items that satisfy Test, in result order
ExcerptsOf(items, Test(_)) ==
    LET sel == SelectSeq(items, Test) IN [i \in 1..Len(sel) |-> sel[i].snippet]

RECURSIVE NewlineJoined(_)
\* the parts with one newline between neighbours, built from the left
NewlineJoined(parts) ==
    IF Len(parts) = 0 THEN <<>>
    ELSE IF Len(parts) = 1 THEN parts[1]
    ELSE NewlineJoined(SubSeq(parts, 1, Len(parts) - 1)) \o <<"\n">> \o parts[Len(parts)]

\* C8 as stated (digest of the excerpted items): for a response with at
\* least one item that has an excerpt, the digest is the excerpts of the
\* items that have one, in result order, joined by newlines.
C8_DigestOfExcerpts ==
    (SearchParsed /\ http.organic /\ \E i \in 1..Len(http.items) : HasExcerpt(http.items[i])) =>
        web_results = Some(NewlineJoined(ExcerptsOf(http.items, HasExcerpt)))

\* C8 as amended (digest of the non-empty excerpts): for a response with at
\* least one item that has a non-empty excerpt, the digest is the non-empty
\* excerpts, in result order, joined by newlines; an item with no excerpt
\* or with an empty one contributes nothing.
C8_DigestOfNonEmptyExcerpts ==
    (SearchParsed /\ http.organic
       /\ \E i \in 1..Len(http.items) : HasNonEmptyExcerpt(http.items[i])) =>
        web_results = Some(NewlineJoined(ExcerptsOf(http.items, HasNonEmptyExcerpt)))

C8_Witness ==
    /\ SearchParsed /\ http.organic
    /\ Len(http.items) = 2
    /\ http.items[1] = [has |-> TRUE, snippet |-> <<"b">>]
    /\ http.items[2] = [has |-> TRUE, snippet |-> <<"a">>]
    /\ web_results = Some(<<"b", "\n", "a">>)

\* ---------------------------------------------------------------- C9

\* the agents in the declared order: document, web, summary
DeclaredOrder == <<AGENT1_ID, AGENT2_ID, AGENT3_ID>>

\* a Response of the thread tid was received before position i of calls
ResponseReceivedBefore(tid, i) ==
    \E j \in 1..(i - 1) : calls[j].op = "get_response" /\ calls[j].ok /\ calls[j].tid = tid

\* the search returned before position i of calls
SearchedBefore(i) == \E j \in 1..(i - 1) : calls[j].op = "http_get"

\* C9 (strict stage order): the n-th thread, message and Response of a
\* pipeline run belong to the n-th agent of document, web, summary; the
\* thread of a stage is created and its message posted only after the
\* Response of the stage before was received; and the stages' messages are
\* the user query, then the query with the digest of a search made before,
\* then the two Responses received before.
C9_StrictStageOrder ==
    flow = "pipeline" =>
        /\ \A n \in 1..Len(Posts) :
               /\ calls[Posts[n]].agent = DeclaredOrder[n]
               /\ calls[Posts[n]].tid = calls[Creates[n]].tid
               /\ Creates[n] < Posts[n]
        /\ \A n \in 1..Len(Asks) :
               /\ calls[Asks[n]].agent = DeclaredOrder[n]
               /\ calls[Asks[n]].tid = calls[Posts[n]].tid
               /\ Posts[n] < Asks[n]
        /\ \A n \in 2..Len(Creates) :
               ResponseReceivedBefore(calls[Posts[n - 1]].tid, Creates[n])
        /\ Len(Posts) >= 1 => calls[Posts[1]].msg = user_query
        /\ Len(Posts) >= 2 =>
               /\ SearchedBefore(Posts[2]) /\ web_results.some
               /\ calls[Posts[2]].msg =
                      <<"Web search results for '">> \o user_query \o <<"':", "\n">>
                      \o web_results.val
        /\ Len(Posts) >= 3 =>
               /\ Asks[1] < Posts[3] /\ Asks[2] < Posts[3]
               /\ Contains(calls[Posts[3]].msg, calls[Asks[1]].msg)
               /\ Contains(calls[Posts[3]].msg, calls[Asks[2]].msg)

C9_Witness ==
    /\ flow = "pipeline" /\ RunEnded /\ outcome = "returned"
    /\ Len(Asks) = 3 /\ Len(Deletes) = 3
    /\ user_query = <<"a", "b">>
    /\ calls[Asks[1]].msg # calls[Asks[2]].msg

\* ---------------------------------------------------------------- C10

\* C10 (the summary message): the message posted to the summary stage is
\* the document section, a blank line, the web section: each the stage's
\* label followed by the Response that stage received, and nothing of the
\* user query or of the search digest.
C10_SummaryMessage ==
    (flow = "pipeline" /\ Len(Posts) >= 3) =>
        calls[Posts[3]].msg =
            <<"Document Agent info: ">> \o calls[Asks[1]].msg
            \o <<"\n", "\n">>
            \o <<"Web Agent info: ">> \o calls[Asks[2]].msg

C10_Witness ==
    /\ flow = "pipeline" /\ Len(Posts) = 3 /\ calls[Posts[3]].ok
    /\ user_query # <<>>
    /\ web_results.some /\ web_results.val # NoResults
    /\ calls[Asks[1]].msg = <<"b">> /\ calls[Asks[2]].msg = <<"a">>

\* ---------------------------------------------------------------- C11

\* the threads created whose delete_thread has not been attempted
OpenThreads ==
    {calls[i].tid : i \in ThreadsOpened}
    \ {calls[i].tid : i \in CallsOf("delete_thread")}

\* C11 (open-session invariant): at every moment of a pipeline run at most
\* one Session is open, that of the stage at work; the Session of a stage
\* is closed before a later stage opens its own.
C11_OneOpenSession ==
    flow = "pipeline" => Cardinality(OpenThreads) <= 1

\* ---------------------------------------------------------------- C12

ConfigMissing == config.SERP_API_KEY = "None" \/ config.PROJECT_CONN_STR = "None"

\* C12 (configuration errors are pre-flight): a pipeline run with a required
\* setting missing is stopped before any thread is opened: it makes no
\* create_thread call.
C12_ConfigErrorPreflight ==
    (flow = "pipeline" /\ ConfigMissing) => CallsOf("create_thread") = {}

\* ---------------------------------------------------------------- C13

AllStagesResponded == \A k \in Stages : response[k].some

\* C13 (exit status): a pipeline run that has ended exits with zero exactly
\* when all three stages produced a Response; a run that ended on a failed
\* client initialisation or on an aborted stage exits non-zero.
C13_ExitStatus ==
    (flow = "pipeline" /\ RunEnded) => (ExitStatus = 0 <=> AllStagesResponded)

\* ---------------------------------------------------------------- C14

\* a get_agent call of this run raised
GetAgentRaised == \E i \in CallsOf("get_agent") : ~calls[i].ok

\* C14 (agent not found): once a get_agent call of the pipeline has raised,
\* the run has ended with that exception, no call follows it, and no thread
\* opened in the run is without a delete_thread attempt.
C14_AgentNotFoundAborts ==
    (flow = "pipeline" /\ GetAgentRaised) =>
        /\ RunEnded /\ outcome = "raised" /\ error = "get_agent"
        /\ LastCall.op = "get_agent" /\ ~LastCall.ok
        /\ OpenThreads = {}

C14_Witness ==
    /\ flow = "pipeline" /\ GetAgentRaised
    /\ Len(calls) = 3 /\ calls[3].agent = AGENT3_ID
    /\ RunEnded

\* ---------------------------------------------------------------- C15

\* how many elements of the sequence satisfy Test
CountIn(seq, Test(_)) == Len(SelectSeq(seq, Test))

IsDeleteError(line) == line = <<"Error deleting thread">>

IsFailedDelete(call) == call.op = "delete_thread" /\ ~call.ok

\* C15 (independent cleanup): once the cleanup loop of the pipeline has
\* started, the delete_thread attempts made so far are one for each of the
\* first threads of the run, in creation order, whatever the attempts before
\* gave; every failed attempt is reported once; and the run ends, returning,
\* only after the attempt for the last thread.
C15_IndependentCleanup ==
    (flow = "pipeline" /\ Len(Deletes) >= 1) =>
        /\ Len(Creates) = 3
        /\ \A n \in 1..Len(Deletes) : calls[Deletes[n]].tid = calls[Creates[n]].tid
        /\ CountIn(printed, IsDeleteError) = CountIn(calls, IsFailedDelete)
        /\ IF RunEnded THEN Len(Deletes) = 3 /\ outcome = "returned"
           ELSE pc = "delete_thread"

C15_Witness ==
    /\ flow = "pipeline" /\ RunEnded
    /\ Len(Deletes) = 3
    /\ ~calls[Deletes[1]].ok /\ calls[Deletes[2]].ok /\ ~calls[Deletes[3]].ok
    /\ OpenThreads = {}

\* ---------------------------------------------------------------- C16

\* C16 (cancellation): a run that ended on a cancellation, in any flow, has
\* attempted delete_thread on every thread it had opened.
C16_CancelledRunCleansUp ==
    (RunEnded /\ (error = "cancelled" \/ pending = "cancelled")) => OpenThreads = {}

\* ---------------------------------------------------------------- C17

\* the search got a parsed response none of whose items has a usable excerpt
SearchFoundNothing ==
    /\ SearchParsed
    /\ \A i \in 1..Len(http.items) : ~HasNonEmptyExcerpt(http.items[i])

\* the first n elements of a sequence
Prefix(seq, n) == SubSeq(seq, 1, n)

\* C17 (an empty search is not a failure): in a pipeline run whose search
\* found nothing and whose three asks all succeeded, the web stage's
\* message contains the sentinel, the summary stage's message contains the
\* document and the web Response, and the output is the three Responses
\* under their headings in stage order, the summary's last.
C17_EmptySearchRun ==
    (flow = "pipeline" /\ SearchFoundNothing /\ Len(Asks) = 3 /\ calls[Asks[3]].ok) =>
        /\ Contains(calls[Posts[2]].msg, <<"No results found.">>)
        /\ Contains(calls[Posts[3]].msg, <<"Document Agent info: ">> \o calls[Asks[1]].msg)
        /\ Contains(calls[Posts[3]].msg, <<"Web Agent info: ">> \o calls[Asks[2]].msg)
        /\ Prefix(printed, 7) =
               <<<<"Project client initialized.">>,
                 <<"\n[Document Search Agent Response]">>, calls[Asks[1]].msg,
                 <<"\n[Web Search Agent Response]">>, calls[Asks[2]].msg,
                 <<"\n[Summary Agent Response]">>, calls[Asks[3]].msg>>
        /\ \A i \in 8..Len(printed) : IsDeleteError(printed[i])

C17_Witness ==
    /\ flow = "pipeline" /\ SearchFoundNothing /\ http.organic /\ Len(http.items) >= 1
    /\ RunEnded /\ outcome = "returned"
    /\ Len(Asks) = 3 /\ calls[Asks[3]].ok
    /\ user_query # <<>>

\* ---------------------------------------------------------------- C18

\* the calls made on the thread t, in call order
ThreadCalls(t) == SelectSeq(calls, LAMBDA c : c.tid = t)

\* C18 (session protocol): the calls on every thread are, in this order, its
\* create_thread, one add_chat_message, at most one get_response and at
\* most one delete_thread; the message is posted next after the creation,
\* the Response is requested only after the message was accepted and from
\* the agent it was posted to, and nothing follows the delete_thread.
C18_SessionProtocol ==
    \A t \in {calls[i].tid : i \in ThreadsOpened} :
        LET tc == ThreadCalls(t) IN
        /\ Len(tc) <= 4
        /\ tc[1].op = "create_thread"
        /\ Len(tc) = 1 => (pc = "add_chat_message" /\ LastCall = tc[1])
        /\ Len(tc) >= 2 => tc[2].op = "add_chat_message"
        /\ Len(tc) >= 3 =>
               \/ tc[3].op = "get_response" /\ tc[2].ok /\ tc[3].agent = tc[2].agent
               \/ tc[3].op = "delete_thread" /\ Len(tc) = 3
        /\ Len(tc) = 4 => tc[4].op = "delete_thread"

C18_Witness ==
    /\ flow = "pipeline" /\ RunEnded /\ outcome = "returned"
    /\ \A t \in 1..3 : Len(ThreadCalls(t)) = 4

\* ---------------------------------------------------------------- C19

AskErrors == {"add_chat_message", "get_response"}

\* C19 (single-agent cleanup): when a single-agent run that created its
\* thread has ended, delete_thread was attempted on the thread exactly once,
\* and if the ask had raised, the run ended with the ask's exception.
C19_SingleFlowCleanup ==
    (flow \in {"existing", "create"} /\ RunEnded /\ ThreadsOpened # {}) =>
        /\ Len(Deletes) = 1 /\ calls[Deletes[1]].tid = thread[1]
        /\ pending \in AskErrors => (outcome = "raised" /\ error = pending)

\* ---------------------------------------------------------------- C20

\* C20 (created agents are deleted): when a run of the provisioning flow
\* whose create_agent succeeded has ended, delete_agent was called on the
\* agent created.
C20_CreatedAgentDeleted ==
    (flow = "create" /\ RunEnded /\ \E i \in CallsOf("create_agent") : calls[i].ok) =>
        \E j \in CallsOf("delete_agent") : calls[j].agent = CreatedAgentId

====
